---------------------------- MODULE Spec2Model ----------------------------
(***************************************************************************)
(* A model of src/src/data/cache.py: the persistent cache for API          *)
(* responses (class Cache), its merge, its composite line-item key, and    *)
(* its JSON files under ./data/<ticker>/.                                  *)
(*                                                                         *)
(* Python values are modelled as follows.                                  *)
(*   list            a sequence                                            *)
(*   dict            a function; its DOMAIN is the set of keys             *)
(*   record (dict)   a function from field names to scalars                *)
(*   None            the absent result [absent |-> TRUE, value |-> <<>>]   *)
(*   str that is joined or sorted (end_date, period, line-item names,      *)
(*                   query keys): a sequence of one-character strings      *)
(*   file content    a sequence of JSON tokens                             *)
(***************************************************************************)
EXTENDS Integers, Sequences, FiniteSets, TLC

(***************************************************************************)
(* Bounds of the model.                                                    *)
(***************************************************************************)
\* the number of get_* and set_* calls in one history
MaxOps == 2
\* the longest sequence handed to the pure merge function
MaxLen == 2

(***************************************************************************)
(* Tickers, collections, fields, records.                                  *)
(***************************************************************************)
Tickers == {"AAPL", "MSFT"}

MergedCollections == {"prices", "financial_metrics", "insider_trades", "company_news"}

\* key_field= of each set_* (cache.py lines 94, 110, 154, 170)
KeyField(c) ==
    CASE c = "prices" -> "time"
      [] c = "financial_metrics" -> "report_period"
      [] c = "insider_trades" -> "filing_date"
      [] c = "company_news" -> "date"

\* one further field of each record type (src/src/data/models.py)
PayloadField(c) ==
    CASE c = "prices" -> "close"
      [] c = "financial_metrics" -> "market_cap"
      [] c = "insider_trades" -> "transaction_shares"
      [] c = "company_news" -> "title"

\* the file of each collection inside a ticker directory
FileName(c) ==
    CASE c = "prices" -> "prices.json"
      [] c = "financial_metrics" -> "financial_metrics.json"
      [] c = "line_items" -> "line_items.json"
      [] c = "insider_trades" -> "insider_trades.json"
      [] c = "company_news" -> "company_news.json"

\* fields whose values are Python str (the others are numbers)
StrFields == {"time", "report_period", "filing_date", "date", "title"}

\* the order in which a record's fields were inserted (dicts keep it)
FieldOrder == <<"time", "report_period", "filing_date", "date",
                "close", "market_cap", "transaction_shares", "title", "revenue">>

Day1 == "2024-01-01"
Day2 == "2024-01-02"

PayloadA(c) == IF c = "company_news" THEN "headline A" ELSE 100
PayloadB(c) == IF c = "company_news" THEN "headline B" ELSE 101

\* a record of collection c with identity value id and payload v
Rec(c, id, v) == (KeyField(c) :> id) @@ (PayloadField(c) :> v)

\* the records the environment hands to set_*: two identity values, and two
\* records that share the identity value Day1 and differ in the payload
Records(c) == {Rec(c, Day1, PayloadA(c)), Rec(c, Day1, PayloadB(c)), Rec(c, Day2, PayloadB(c))}

\* the record lists handed to set_line_items (a LineItem of models.py)
LineItemData ==
    {<<>>, <<[report_period |-> Day1, revenue |-> 100]>>,
     <<[report_period |-> Day1, revenue |-> 101], [report_period |-> Day2, revenue |-> 100]>>}

\* all sequences over S of length at most n
SeqsUpTo(S, n) == UNION {[1..k -> S] : k \in 0..n}

\* the batches handed to the facade's set_*: an empty one, a first fetch, a
\* refetch that overlaps it with a changed payload and brings a new day, and
\* a batch with a repeated identity value
Batches(c) ==
    LET r1  == Rec(c, Day1, PayloadA(c))
        r1b == Rec(c, Day1, PayloadB(c))
        r2  == Rec(c, Day2, PayloadB(c))
    IN  {<<>>, <<r1>>, <<r1b, r2>>, <<r1, r1b>>}

(***************************************************************************)
(* Python helpers.                                                         *)
(***************************************************************************)
None == [absent |-> TRUE, value |-> <<>>]
Some(v) == [absent |-> FALSE, value |-> v]

\* dict.get(key)
DictGet(d, k) == IF k \in DOMAIN d THEN Some(d[k]) ELSE None

\* d[key] = v  /  d.update({key: v})
DictPut(d, k, v) == [x \in DOMAIN d \cup {k} |-> IF x = k THEN v ELSE d[x]]

EmptyDict == [x \in {} |-> <<>>]

\* {item[key_field] for item in s}
KeySet(s, key_field) == {s[i][key_field] : i \in 1..Len(s)}

(***************************************************************************)
(* Cache._merge_data                                                       *)
(***************************************************************************)
\* a plausible slip: new records replace the stored list when it is present
MergeData_Replace(existing, new_data, key_field) ==
    new_data

\* a plausible slip: the membership test is dropped
MergeData_NoFilter(existing, new_data, key_field) ==
    IF existing.absent \/ existing.value = <<>>
    THEN new_data
    ELSE existing.value \o new_data

\* a plausible slip: new records are put in front of the stored ones
MergeData_Prepend(existing, new_data, key_field) ==
    IF existing.absent \/ existing.value = <<>>
    THEN new_data
    ELSE LET existing_keys == KeySet(existing.value, key_field)
         IN  SelectSeq(new_data, LAMBDA item : item[key_field] \notin existing_keys)
             \o existing.value

\* item[key_field] raises KeyError for a record of s
LacksKey(s, key_field) == \E i \in 1..Len(s) : key_field \notin DOMAIN s[i]

\* _merge_data raises: past the cold path, the two comprehensions of lines 78
\* and 82 subscript every record of existing and of new_data
MergeDataRaises(existing, new_data, key_field) ==
    /\ ~(existing.absent \/ existing.value = <<>>)
    /\ (LacksKey(existing.value, key_field) \/ LacksKey(new_data, key_field))

\* a plausible slip: a record is also dropped when an earlier record of the
\* same batch has its identity value; the cold path dedups the batch too
RECURSIVE DedupAppend(_, _, _)
DedupAppend(acc, new_data, key_field) ==
    IF new_data = <<>> THEN acc
    ELSE DedupAppend(IF Head(new_data)[key_field] \in KeySet(acc, key_field) THEN acc
                     ELSE Append(acc, Head(new_data)),
                     Tail(new_data), key_field)

MergeData_Dedup(existing, new_data, key_field) ==
    DedupAppend(existing.value, new_data, key_field)

\* existing is the result of dict.get (None or a list); new_data is a list
MergeData(existing, new_data, key_field) ==
    IF existing.absent \/ existing.value = <<>>
    THEN new_data
    ELSE LET existing_keys == KeySet(existing.value, key_field)
             merged == existing.value
         IN  merged \o SelectSeq(new_data, LAMBDA item : item[key_field] \notin existing_keys)


(***************************************************************************)
(* Strings that the code joins and sorts: sequences of characters.         *)
(***************************************************************************)
\* ord() of the characters the model uses
Ord(ch) ==
    CASE ch = "," -> 44
      [] ch = "_" -> 95
      [] ch = "d" -> 100
      [] ch = "f" -> 102
      [] ch = "g" -> 103
      [] ch = "q" -> 113
      [] ch = "t" -> 116

\* a < b on Python str: lexicographic by code point
RECURSIVE StrLess(_, _)
StrLess(a, b) ==
    IF b = <<>> THEN FALSE
    ELSE IF a = <<>> THEN TRUE
    ELSE IF Head(a) = Head(b) THEN StrLess(Tail(a), Tail(b))
    ELSE Ord(Head(a)) < Ord(Head(b))

\* the position of x in an already sorted list
RECURSIVE InsertSorted(_, _)
InsertSorted(x, s) ==
    IF s = <<>> THEN <<x>>
    ELSE IF StrLess(x, Head(s)) THEN <<x>> \o s
    ELSE <<Head(s)>> \o InsertSorted(x, Tail(s))

\* a plausible slip: the list is joined in the order the caller gave
Sorted_Unsorted(s) ==
    s

\* sorted(line_items)
RECURSIVE Sorted(_)
Sorted(s) ==
    IF s = <<>> THEN <<>>
    ELSE InsertSorted(s[Len(s)], Sorted(SubSeq(s, 1, Len(s) - 1)))

\* sep.join(parts)
RECURSIVE Join(_, _)
Join(sep, parts) ==
    IF parts = <<>> THEN <<>>
    ELSE IF Len(parts) = 1 THEN parts[1]
    ELSE parts[1] \o sep \o Join(sep, Tail(parts))

\* f"{end_date}_{period}_{','.join(sorted(line_items))}"
QueryKey(line_items, end_date, period) ==
    end_date \o <<"_">> \o period \o <<"_">> \o Join(<<",">>, Sorted(line_items))

\* the set of a list's elements
Elems(s) == {s[i] : i \in 1..Len(s)}

\* the keys of a dict of str keys, in sorted order
RECURSIVE SortedKeys(_)
SortedKeys(S) ==
    IF S = {} THEN <<>>
    ELSE LET m == CHOOSE x \in S : \A y \in S \ {x} : StrLess(x, y)
         IN  <<m>> \o SortedKeys(S \ {m})

(***************************************************************************)
(* JSON text: json.dump(data, f, indent=2) and json.load(f).               *)
(* A file's content is the sequence of tokens of its text.                 *)
(***************************************************************************)
Punct(k) == [k |-> k, s |-> "", n |-> 0, q |-> <<>>]
\* a JSON string holding a field name or a str value
TStr(s) == [k |-> "str", s |-> s, n |-> 0, q |-> <<>>]
\* a JSON string holding a query key
TKey(q) == [k |-> "str", s |-> "", n |-> 0, q |-> q]
TNum(n) == [k |-> "num", s |-> "", n |-> n, q |-> <<>>]
\* the newline and indentation that indent=2 writes
WS == Punct("ws")

DumpScalar(field, v) == IF field \in StrFields THEN TStr(v) ELSE TNum(v)

\* the fields of a record in insertion order
FieldsOf(r) == SelectSeq(FieldOrder, LAMBDA f : f \in DOMAIN r)

RECURSIVE DumpMembers(_, _)
DumpMembers(r, fields) ==
    IF fields = <<>> THEN <<>>
    ELSE <<WS, TStr(Head(fields)), Punct("colon"), DumpScalar(Head(fields), r[Head(fields)])>>
         \o (IF Len(fields) > 1 THEN <<Punct("comma")>> ELSE <<WS>>)
         \o DumpMembers(r, Tail(fields))

\* one record (a dict of scalars)
DumpRecord(r) ==
    <<Punct("lbrace")>> \o DumpMembers(r, FieldsOf(r)) \o <<Punct("rbrace")>>

RECURSIVE DumpElems(_)
DumpElems(s) ==
    IF s = <<>> THEN <<>>
    ELSE <<WS>> \o DumpRecord(Head(s))
         \o (IF Len(s) > 1 THEN <<Punct("comma")>> ELSE <<WS>>)
         \o DumpElems(Tail(s))

\* a list of records
DumpList(s) ==
    <<Punct("lbrack")>> \o DumpElems(s) \o <<Punct("rbrack")>>

RECURSIVE DumpEntries(_, _)
DumpEntries(d, keys) ==
    IF keys = <<>> THEN <<>>
    ELSE <<WS, TKey(Head(keys)), Punct("colon")>> \o DumpList(d[Head(keys)])
         \o (IF Len(keys) > 1 THEN <<Punct("comma")>> ELSE <<WS>>)
         \o DumpEntries(d, Tail(keys))

\* a dict from query key to list of records (dict equality ignores the order
\* of the entries; the model writes them in sorted order)
DumpDict(d) ==
    <<Punct("lbrace")>> \o DumpEntries(d, SortedKeys(DOMAIN d)) \o <<Punct("rbrace")>>

\* a plausible slip: the file receives only the first record of the list
JsonDump_FirstOnly(c, data) ==
    IF c = "line_items" THEN DumpDict(data)
    ELSE DumpList(IF data = <<>> THEN <<>> ELSE <<data[1]>>)

\* json.dump of a collection's in-memory value
JsonDump(c, data) ==
    IF c = "line_items" THEN DumpDict(data) ELSE DumpList(data)

ParseFail == [ok |-> FALSE, v |-> <<>>, rest |-> <<>>]
ParseOk(v, rest) == [ok |-> TRUE, v |-> v, rest |-> rest]

RECURSIVE ParseValue(_), ParseElems(_, _), ParseMembers(_, _)

\* one JSON value at the head of ts
ParseValue(ts) ==
    IF ts = <<>> THEN ParseFail
    ELSE LET t == Head(ts) IN
         CASE t.k = "str" -> ParseOk(IF t.q # <<>> THEN t.q ELSE t.s, Tail(ts))
           [] t.k = "num" -> ParseOk(t.n, Tail(ts))
           [] t.k = "lbrack" ->
                IF Len(ts) > 1 /\ ts[2].k = "rbrack"
                THEN ParseOk(<<>>, SubSeq(ts, 3, Len(ts)))
                ELSE ParseElems(Tail(ts), <<>>)
           [] t.k = "lbrace" ->
                IF Len(ts) > 1 /\ ts[2].k = "rbrace"
                THEN ParseOk(EmptyDict, SubSeq(ts, 3, Len(ts)))
                ELSE ParseMembers(Tail(ts), EmptyDict)
           [] OTHER -> ParseFail

\* the elements of an array, after "[" or ","
ParseElems(ts, acc) ==
    LET e == ParseValue(ts) IN
    IF ~e.ok \/ e.rest = <<>> THEN ParseFail
    ELSE IF Head(e.rest).k = "comma" THEN ParseElems(Tail(e.rest), Append(acc, e.v))
    ELSE IF Head(e.rest).k = "rbrack" THEN ParseOk(Append(acc, e.v), Tail(e.rest))
    ELSE ParseFail

\* the members of an object, after "{" or ","
ParseMembers(ts, acc) ==
    IF Len(ts) < 2 \/ ts[1].k # "str" \/ ts[2].k # "colon" THEN ParseFail
    ELSE LET key == IF ts[1].q # <<>> THEN ts[1].q ELSE ts[1].s
             e == ParseValue(SubSeq(ts, 3, Len(ts)))
         IN  IF ~e.ok \/ e.rest = <<>> THEN ParseFail
             ELSE IF Head(e.rest).k = "comma"
                  THEN ParseMembers(Tail(e.rest), DictPut(acc, key, e.v))
             ELSE IF Head(e.rest).k = "rbrace"
                  THEN ParseOk(DictPut(acc, key, e.v), Tail(e.rest))
             ELSE ParseFail

\* a byte sequence in a file that is not the encoding of any character
BadByte == Punct("badbyte")

\* json.load: it reads and decodes the whole file, which raises
\* UnicodeDecodeError on bytes that are no text, and then parses the text,
\* which raises json.JSONDecodeError on text that is no JSON document
JsonLoad(text) ==
    IF \E i \in 1..Len(text) : text[i].k = "badbyte"
    THEN [ok |-> FALSE, v |-> <<>>, err |-> "UnicodeDecodeError"]
    ELSE LET ts == SelectSeq(text, LAMBDA t : t.k # "ws")
             r == ParseValue(ts)
         IN  IF r.ok /\ r.rest = <<>> THEN [ok |-> TRUE, v |-> r.v, err |-> ""]
             ELSE [ok |-> FALSE, v |-> <<>>, err |-> "JSONDecodeError"]

(***************************************************************************)
(* The state.                                                              *)
(***************************************************************************)
VARIABLES
    \* the five dicts of a Cache instance (cache.py lines 10-15)
    prices_cache, financial_metrics_cache, line_items_cache,
    insider_trades_cache, company_news_cache,
    \* the disk: whether ./data exists, the ticker directories in it, and the
    \* files, a dict from <<ticker, file name>> to the file's text
    base_exists, dirs, files,
    \* the last call: its name, its arguments, the value dict.get gave before
    \* it ran, its return value, and whether it raised
    last,
    \* history: per <<collection, ticker>> the batches handed to set_* so far
    hist,
    \* history: per ticker the query keys handed to set_line_items so far
    li_keys,
    \* the number of get_* and set_* calls so far
    nops,
    \* one application of _merge_data on its own, twice over
    m,
    \* the Cache objects built in this process, and the object each caller of
    \* get_cache() holds
    inst,
    \* the threads that are inside a set_* or get_* call, step by step
    th,
    \* the list objects of the process and the references to them: the heap,
    \* the dict of prices as a dict of references, the call of set_prices that
    \* is under way, and what the get_prices calls returned
    al

caches == <<prices_cache, financial_metrics_cache, line_items_cache,
            insider_trades_cache, company_news_cache>>
disk == <<base_exists, dirs, files>>
\* the state used by one of the specifications only
side == <<m, inst, th, al>>
vars == <<caches, disk, last, hist, li_keys, nops, side>>

\* the dict of a collection
Cache(c) ==
    CASE c = "prices" -> prices_cache
      [] c = "financial_metrics" -> financial_metrics_cache
      [] c = "line_items" -> line_items_cache
      [] c = "insider_trades" -> insider_trades_cache
      [] c = "company_news" -> company_news_cache

NoCall ==
    [op |-> "none", coll |-> "", ticker |-> "", before |-> None, data |-> <<>>,
     line_items |-> <<>>, end_date |-> <<>>, period |-> <<>>,
     ret |-> None, raised |-> FALSE, io |-> "ok", err |-> ""]

MOff == [pc |-> "off", coll |-> "", existing |-> None, incoming |-> <<>>,
         once |-> <<>>, twice |-> <<>>]

\* the code that calls get_cache()
Callers == {"agent", "backtester"}

\* a process after the module was imported: line 179 has built one Cache
\* object, the first of the process, and bound the global _cache to it; no
\* caller has asked for it yet (0: no reference)
OneInstance == [count |-> 1, global |-> 1, refs |-> [k \in Callers |-> 0]]

\* the threads of the process that use the cache
Threads == {"th1", "th2"}

ThreadOff == [pc |-> "off", op |-> "", ticker |-> "", data |-> <<>>, start |-> None,
              existing |-> None, merged |-> <<>>, text |-> <<>>, ret |-> None]

NoThreads == [k \in Threads |-> ThreadOff]

\* no call of set_prices is under way: data, merged are references (0: none)
WriterIdle == [pc |-> "idle", data |-> 0, handed |-> <<>>, existing |-> None, merged |-> 0]

\* no list object exists
AliasOff == [objs |-> <<>>, cache |-> EmptyDict, w |-> WriterIdle, got |-> <<>>,
             op |-> "", mutated |-> FALSE, results |-> {}, start |-> None]

(***************************************************************************)
(* Disk: Cache._ensure_ticker_dir, Cache._save_file, Cache._load_file,     *)
(* Cache._load_cache.                                                      *)
(***************************************************************************)
\* what the operating system may answer to one set_*'s directory and file
\* operations
IoOutcomes == {"ok", "mkdir_error", "open_error", "write_error"}

\* a plausible slip: the path leaves the ticker's directory out
FilePath_NoTicker(t, c) ==
    <<"AAPL", FileName(c)>>

\* the path of a collection's file: self._base_dir / ticker / name
FilePath(t, c) == <<t, FileName(c)>>

\* the files after _save_file(file_path, data): an IOError is caught and
\* printed; open(.., 'w') that succeeded has truncated the file, and a write
\* that then fails leaves the text cut short
SaveFile(fs, path, text, io) ==
    CASE io = "ok" -> DictPut(fs, path, text)
      [] io = "open_error" -> fs
      [] io = "write_error" -> DictPut(fs, path, SubSeq(text, 1, Len(text) - 1))

\* _load_file on one path: the value to store, or absent when the file is
\* missing or json.load raises
LoadFile(fs, path) ==
    IF path \notin DOMAIN fs THEN None
    ELSE LET r == JsonLoad(fs[path])
         IN  IF r.ok THEN Some(r.v) ELSE None

\* the exceptions that _load_file catches (line 61); UnicodeDecodeError is a
\* ValueError and neither a JSONDecodeError nor an IOError
CaughtOnLoad == {"JSONDecodeError", "IOError"}

\* _load_file on this path lets an exception through to its caller
LoadFileRaises(fs, path) ==
    /\ path \in DOMAIN fs
    /\ LET r == JsonLoad(fs[path]) IN ~r.ok /\ r.err \notin CaughtOnLoad

\* the five collections, in the order _load_cache loads their files
Collections == MergedCollections \cup {"line_items"}

\* _load_cache comes upon a file whose exception nothing catches: it leaves
\* __init__, the assignment of line 179 and the import of the module
LoadCacheRaises ==
    base_exists /\ \E d \in dirs : \E c \in Collections : LoadFileRaises(files, FilePath(d, c))

\* a plausible slip: only the prices are loaded at start
LoadCache_PricesOnly(c) ==
    IF ~base_exists \/ c # "prices" THEN EmptyDict
    ELSE [t \in {d \in dirs : ~LoadFile(files, FilePath(d, c)).absent}
            |-> LoadFile(files, FilePath(t, c)).value]

\* the dict of collection c after _load_cache has run over the disk
LoadCache(c) ==
    IF ~base_exists THEN EmptyDict
    ELSE LET loaded == [d \in dirs |-> LoadFile(files, FilePath(d, c))]
         IN  [t \in {d \in dirs : ~loaded[d].absent} |-> loaded[t].value]

\* a plausible slip: the file is written before the directory is ensured
Persist_SaveFirst(t, c, data, io) ==
    /\ base_exists' = (base_exists \/ io # "mkdir_error")
    /\ dirs' = IF io = "mkdir_error" THEN dirs ELSE dirs \cup {t}
    /\ files' = SaveFile(files, FilePath(t, c), JsonDump(c, data),
                         IF io = "mkdir_error" THEN "ok" ELSE io)

\* the disk after _ensure_ticker_dir(ticker) and _save_file(..): mkdir that
\* raises OSError ends the set_* call before the file is opened
Persist(t, c, data, io) ==
    IF io = "mkdir_error"
    THEN UNCHANGED disk
    ELSE /\ base_exists' = TRUE
         /\ dirs' = dirs \cup {t}
         /\ files' = SaveFile(files, FilePath(t, c), JsonDump(c, data), io)

(***************************************************************************)
(* Cache.__init__: a process starts and builds its Cache from the disk.    *)
(***************************************************************************)
Construct ==
    /\ IF LoadCacheRaises
       THEN \* no Cache object comes to exist in this process
            /\ prices_cache' = EmptyDict
            /\ financial_metrics_cache' = EmptyDict
            /\ line_items_cache' = EmptyDict
            /\ insider_trades_cache' = EmptyDict
            /\ company_news_cache' = EmptyDict
            /\ last' = [NoCall EXCEPT !.op = "__init__", !.raised = TRUE]
            /\ inst' = [OneInstance EXCEPT !.count = 0, !.global = 0]
       ELSE /\ prices_cache' = LoadCache("prices")
            /\ financial_metrics_cache' = LoadCache("financial_metrics")
            /\ line_items_cache' = LoadCache("line_items")
            /\ insider_trades_cache' = LoadCache("insider_trades")
            /\ company_news_cache' = LoadCache("company_news")
            /\ last' = [NoCall EXCEPT !.op = "__init__"]
            /\ inst' = OneInstance
    /\ base_exists' = TRUE
    /\ UNCHANGED <<dirs, files, hist, li_keys, nops, m, th, al>>

(***************************************************************************)
(* get_* and set_* of the four merged collections.                         *)
(***************************************************************************)
\* a plausible slip: a miss answers with an empty list
GetMerged_EmptyOnMiss(cache, t) ==
    IF t \in DOMAIN cache THEN Some(cache[t]) ELSE Some(<<>>)

\* self._X_cache.get(ticker)
GetMerged(cache, t) ==
    DictGet(cache, t)

\* the records of new_data before the first one that lacks key_field
RECURSIVE WellFormedStart(_, _)
WellFormedStart(new_data, key_field) ==
    IF new_data = <<>> \/ key_field \notin DOMAIN Head(new_data) THEN <<>>
    ELSE <<Head(new_data)>> \o WellFormedStart(Tail(new_data), key_field)

\* a plausible slip: the merge appends to the stored list record by record,
\* so that a KeyError leaves behind the records appended before it
SetMerged_InPlace(c, key_field, t, data, io) ==
    LET before == DictGet(Cache(c), t)
        partial == IF LacksKey(before.value, key_field) THEN before.value
                   ELSE MergeData(before, WellFormedStart(data, key_field), key_field)
        merged == IF MergeDataRaises(before, data, key_field) THEN partial
                  ELSE MergeData(before, data, key_field)
    IN  /\ nops < MaxOps
        /\ prices_cache' =
             IF c = "prices" THEN DictPut(prices_cache, t, merged) ELSE prices_cache
        /\ financial_metrics_cache' =
             IF c = "financial_metrics" THEN DictPut(financial_metrics_cache, t, merged)
             ELSE financial_metrics_cache
        /\ insider_trades_cache' =
             IF c = "insider_trades" THEN DictPut(insider_trades_cache, t, merged)
             ELSE insider_trades_cache
        /\ company_news_cache' =
             IF c = "company_news" THEN DictPut(company_news_cache, t, merged)
             ELSE company_news_cache
        /\ IF MergeDataRaises(before, data, key_field) THEN UNCHANGED disk
           ELSE Persist(t, c, merged, io)
        /\ last' = [NoCall EXCEPT !.op = "set", !.coll = c, !.ticker = t,
                                  !.before = before, !.data = data, !.io = io,
                                  !.raised = MergeDataRaises(before, data, key_field),
                                  !.err = IF MergeDataRaises(before, data, key_field)
                                          THEN "KeyError" ELSE ""]
        /\ hist' = [hist EXCEPT ![<<c, t>>] = Append(@, data)]
        /\ nops' = nops + 1
        /\ UNCHANGED <<line_items_cache, li_keys, side>>

\* a plausible slip: the file receives the new batch, not the merged list
SetMerged_SaveBatch(c, key_field, t, data, io) ==
    LET before == DictGet(Cache(c), t)
        merged == MergeData(before, data, key_field)
    IN  /\ nops < MaxOps
        /\ prices_cache' =
             IF c = "prices" THEN DictPut(prices_cache, t, merged) ELSE prices_cache
        /\ financial_metrics_cache' =
             IF c = "financial_metrics" THEN DictPut(financial_metrics_cache, t, merged)
             ELSE financial_metrics_cache
        /\ insider_trades_cache' =
             IF c = "insider_trades" THEN DictPut(insider_trades_cache, t, merged)
             ELSE insider_trades_cache
        /\ company_news_cache' =
             IF c = "company_news" THEN DictPut(company_news_cache, t, merged)
             ELSE company_news_cache
        /\ Persist(t, c, data, io)
        /\ last' = [NoCall EXCEPT !.op = "set", !.coll = c, !.ticker = t,
                                  !.before = before, !.data = data,
                                  !.raised = (io = "mkdir_error"), !.io = io]
        /\ hist' = [hist EXCEPT ![<<c, t>>] = Append(@, data)]
        /\ nops' = nops + 1
        /\ UNCHANGED <<line_items_cache, li_keys, side>>

\* the body shared by set_prices, set_financial_metrics, set_insider_trades
\* and set_company_news: merge into the dict, then persist the merged list
SetMerged(c, key_field, t, data, io) ==
    LET before == DictGet(Cache(c), t)
        merged == MergeData(before, data, key_field)
    IN  /\ nops < MaxOps
        /\ IF MergeDataRaises(before, data, key_field)
           THEN \* the KeyError leaves set_* before the assignment of line 91
                /\ UNCHANGED <<prices_cache, financial_metrics_cache,
                               insider_trades_cache, company_news_cache, disk, hist>>
                /\ last' = [NoCall EXCEPT !.op = "set", !.coll = c, !.ticker = t,
                                          !.before = before, !.data = data,
                                          !.raised = TRUE, !.io = io, !.err = "KeyError"]
           ELSE /\ prices_cache' =
                     IF c = "prices" THEN DictPut(prices_cache, t, merged)
                     ELSE prices_cache
                /\ financial_metrics_cache' =
                     IF c = "financial_metrics"
                     THEN DictPut(financial_metrics_cache, t, merged)
                     ELSE financial_metrics_cache
                /\ insider_trades_cache' =
                     IF c = "insider_trades" THEN DictPut(insider_trades_cache, t, merged)
                     ELSE insider_trades_cache
                /\ company_news_cache' =
                     IF c = "company_news" THEN DictPut(company_news_cache, t, merged)
                     ELSE company_news_cache
                /\ Persist(t, c, merged, io)
                /\ last' = [NoCall EXCEPT !.op = "set", !.coll = c, !.ticker = t,
                                          !.before = before, !.data = data,
                                          !.raised = (io = "mkdir_error"), !.io = io,
                                          !.err = IF io = "mkdir_error" THEN "OSError"
                                                  ELSE ""]
                /\ hist' = [hist EXCEPT ![<<c, t>>] = Append(@, data)]
        /\ nops' = nops + 1
        /\ UNCHANGED <<line_items_cache, li_keys, side>>

set_prices(t, data, io) == SetMerged("prices", "time", t, data, io)

set_financial_metrics(t, data, io) ==
    SetMerged("financial_metrics", "report_period", t, data, io)

set_insider_trades(t, data, io) ==
    SetMerged("insider_trades", "filing_date", t, data, io)

set_company_news(t, data, io) == SetMerged("company_news", "date", t, data, io)

\* the body shared by the four get_* of the merged collections
GetCall(c, t) ==
    /\ nops < MaxOps
    /\ last' = [NoCall EXCEPT !.op = "get", !.coll = c, !.ticker = t,
                              !.ret = GetMerged(Cache(c), t)]
    /\ nops' = nops + 1
    /\ UNCHANGED <<caches, disk, hist, li_keys, side>>

get_prices(t) == GetCall("prices", t)
get_financial_metrics(t) == GetCall("financial_metrics", t)
get_insider_trades(t) == GetCall("insider_trades", t)
get_company_news(t) == GetCall("company_news", t)

(***************************************************************************)
(* get_line_items and set_line_items.                                      *)
(***************************************************************************)
\* the line-item names, end dates and periods of the queries
FieldF == <<"f">>
FieldG == <<"g">>
FieldFG == <<"f", ",", "g">>
FieldLists == {<<FieldF>>, <<FieldF, FieldG>>, <<FieldG, FieldF>>, <<FieldFG>>}
EndDates == {<<"d">>, <<"d", "_", "q">>}
Periods == {<<"t">>, <<"q", "_", "t">>}

\* the value get_line_items returns on the dict `cache`
GetLineItems(cache, t, line_items, end_date, period) ==
    LET ticker_data == IF t \in DOMAIN cache THEN cache[t] ELSE EmptyDict
        query_key == QueryKey(line_items, end_date, period)
    IN  IF DOMAIN ticker_data = {} THEN None ELSE DictGet(ticker_data, query_key)

\* a plausible slip: the ticker's dict is fetched with setdefault, which
\* stores an empty dict on a miss
get_line_items_SetDefault(t, line_items, end_date, period) ==
    /\ nops < MaxOps
    /\ last' = [NoCall EXCEPT !.op = "get_line_items", !.coll = "line_items",
                              !.ticker = t, !.line_items = line_items,
                              !.end_date = end_date, !.period = period,
                              !.ret = GetLineItems(line_items_cache, t, line_items,
                                                   end_date, period)]
    /\ line_items_cache' = IF t \in DOMAIN line_items_cache THEN line_items_cache
                           ELSE DictPut(line_items_cache, t, EmptyDict)
    /\ nops' = nops + 1
    /\ UNCHANGED <<prices_cache, financial_metrics_cache, insider_trades_cache,
                   company_news_cache, disk, hist, li_keys, side>>

get_line_items(t, line_items, end_date, period) ==
    /\ nops < MaxOps
    /\ last' = [NoCall EXCEPT !.op = "get_line_items", !.coll = "line_items",
                              !.ticker = t, !.line_items = line_items,
                              !.end_date = end_date, !.period = period,
                              !.ret = GetLineItems(line_items_cache, t, line_items,
                                                   end_date, period)]
    /\ nops' = nops + 1
    /\ UNCHANGED <<caches, disk, hist, li_keys, side>>

\* a plausible slip: the new list is appended to the one stored under the key
StoreLineItems_Extend(ticker_data, query_key, data) ==
    DictPut(ticker_data, query_key,
            IF query_key \in DOMAIN ticker_data THEN ticker_data[query_key] \o data
            ELSE data)

\* self._line_items_cache[ticker][query_key] = data
StoreLineItems(ticker_data, query_key, data) ==
    DictPut(ticker_data, query_key, data)

set_line_items(t, line_items, end_date, period, data, io) ==
    LET query_key == QueryKey(line_items, end_date, period)
        before == DictGet(line_items_cache, t)
        ticker_data == IF t \notin DOMAIN line_items_cache THEN EmptyDict
                       ELSE line_items_cache[t]
        stored == StoreLineItems(ticker_data, query_key, data)
    IN  /\ nops < MaxOps
        /\ line_items_cache' = DictPut(line_items_cache, t, stored)
        /\ Persist(t, "line_items", stored, io)
        /\ last' = [NoCall EXCEPT !.op = "set_line_items", !.coll = "line_items",
                                  !.ticker = t, !.before = before, !.data = data,
                                  !.line_items = line_items, !.end_date = end_date,
                                  !.period = period, !.raised = (io = "mkdir_error"),
                                  !.io = io,
                                  !.err = IF io = "mkdir_error" THEN "OSError" ELSE ""]
        /\ li_keys' = [li_keys EXCEPT ![t] = @ \cup {query_key}]
        /\ nops' = nops + 1
        /\ UNCHANGED <<prices_cache, financial_metrics_cache, insider_trades_cache,
                       company_news_cache, hist, side>>

(***************************************************************************)
(* The cache used by one thread at a time, every disk operation            *)
(* succeeding: the module's instance is built on an empty storage root     *)
(* (cache.py line 179), then callers get and set, and the process may be   *)
(* started again.                                                          *)
(***************************************************************************)
Init ==
    /\ prices_cache = EmptyDict
    /\ financial_metrics_cache = EmptyDict
    /\ line_items_cache = EmptyDict
    /\ insider_trades_cache = EmptyDict
    /\ company_news_cache = EmptyDict
    /\ base_exists = TRUE
    /\ dirs = {}
    /\ files = EmptyDict
    /\ last = [NoCall EXCEPT !.op = "__init__"]
    /\ hist = [p \in MergedCollections \X Tickers |-> <<>>]
    /\ li_keys = [t \in Tickers |-> {}]
    /\ nops = 0
    /\ m = MOff
    /\ inst = OneInstance
    /\ th = NoThreads
    /\ al = AliasOff

Next ==
    \/ \E t \in Tickers, data \in Batches("prices") : set_prices(t, data, "ok")
    \/ \E t \in Tickers, data \in Batches("financial_metrics") :
          set_financial_metrics(t, data, "ok")
    \/ \E t \in Tickers, data \in Batches("insider_trades") :
          set_insider_trades(t, data, "ok")
    \/ \E t \in Tickers, data \in Batches("company_news") :
          set_company_news(t, data, "ok")
    \/ \E t \in Tickers, fl \in {<<FieldF>>, <<FieldG, FieldF>>},
          data \in {x \in LineItemData : Len(x) < 2} :
          set_line_items(t, fl, <<"d">>, <<"t">>, data, "ok")
    \/ \E t \in Tickers : get_prices(t)
    \/ \E t \in Tickers : get_financial_metrics(t)
    \/ \E t \in Tickers : get_insider_trades(t)
    \/ \E t \in Tickers : get_company_news(t)
    \/ \E t \in Tickers, fl \in {<<FieldF>>, <<FieldF, FieldG>>} :
          get_line_items(t, fl, <<"d">>, <<"t">>)
    \/ Construct

Spec == Init /\ [][Next]_vars

(***************************************************************************)
(* _merge_data on its own: every stored value (None, or a list of at most  *)
(* MaxLen records, repeated identity values included) against every batch  *)
(* of at most MaxLen records, merged once and then merged again as a       *)
(* second set_* with the same batch does.                                  *)
(***************************************************************************)
MergeOnce ==
    /\ m.pc = "args"
    /\ m' = [m EXCEPT !.pc = "once",
                      !.once = MergeData(m.existing, m.incoming, KeyField(m.coll))]
    /\ UNCHANGED <<caches, disk, last, hist, li_keys, nops, inst, th, al>>

MergeTwice ==
    /\ m.pc = "once"
    /\ m' = [m EXCEPT !.pc = "twice",
                      !.twice = MergeData(Some(m.once), m.incoming, KeyField(m.coll))]
    /\ UNCHANGED <<caches, disk, last, hist, li_keys, nops, inst, th, al>>

InitMerge ==
    /\ prices_cache = EmptyDict
    /\ financial_metrics_cache = EmptyDict
    /\ line_items_cache = EmptyDict
    /\ insider_trades_cache = EmptyDict
    /\ company_news_cache = EmptyDict
    /\ base_exists = TRUE
    /\ dirs = {}
    /\ files = EmptyDict
    /\ last = [NoCall EXCEPT !.op = "__init__"]
    /\ hist = [p \in MergedCollections \X Tickers |-> <<>>]
    /\ li_keys = [t \in Tickers |-> {}]
    /\ nops = 0
    /\ inst = OneInstance
    /\ th = NoThreads
    /\ al = AliasOff
    /\ \E c \in MergedCollections :
         \E e \in {None} \cup {Some(x) : x \in SeqsUpTo(Records(c), MaxLen)} :
           \E i \in SeqsUpTo(Records(c), MaxLen) :
             m = [pc |-> "args", coll |-> c, existing |-> e, incoming |-> i,
                  once |-> <<>>, twice |-> <<>>]

NextMerge == MergeOnce \/ MergeTwice

SpecMerge == InitMerge /\ [][NextMerge]_vars

(***************************************************************************)
(* The line items of one ticker, with names, end dates and periods that    *)
(* contain the separators of the query key.  The process is built over a   *)
(* storage root on which an earlier process may have left a                *)
(* line_items.json for the ticker.                                         *)
(***************************************************************************)
LineItemsTicker == "AAPL"

\* what an earlier process may have left in the ticker's line_items.json
EarlierLineItems ==
    {EmptyDict,
     QueryKey(<<FieldG>>, <<"d">>, <<"t">>) :> <<[report_period |-> Day2, revenue |-> 101]>>}

InitLineItems ==
    \E d0 \in EarlierLineItems :
        /\ base_exists = TRUE
        /\ dirs = IF d0 = EmptyDict THEN {} ELSE {LineItemsTicker}
        /\ files = IF d0 = EmptyDict THEN EmptyDict
                   ELSE FilePath(LineItemsTicker, "line_items") :> JsonDump("line_items", d0)
        /\ prices_cache = LoadCache("prices")
        /\ financial_metrics_cache = LoadCache("financial_metrics")
        /\ line_items_cache = LoadCache("line_items")
        /\ insider_trades_cache = LoadCache("insider_trades")
        /\ company_news_cache = LoadCache("company_news")
        /\ last = [NoCall EXCEPT !.op = "__init__"]
        /\ hist = [p \in MergedCollections \X Tickers |-> <<>>]
        /\ li_keys = [t \in Tickers |-> IF t = LineItemsTicker THEN DOMAIN d0 ELSE {}]
        /\ nops = 0
        /\ m = MOff
        /\ inst = OneInstance
        /\ th = NoThreads
        /\ al = AliasOff

NextLineItems ==
    \/ \E fl \in FieldLists, d \in EndDates, p \in Periods, data \in LineItemData :
          set_line_items(LineItemsTicker, fl, d, p, data, "ok")
    \/ \E fl \in FieldLists, d \in EndDates, p \in Periods :
          get_line_items(LineItemsTicker, fl, d, p)
    \/ Construct

SpecLineItems == InitLineItems /\ [][NextLineItems]_vars

(***************************************************************************)
(* The cache over a storage root that earlier processes have left behind   *)
(* and whose directory and file operations may fail.  The state starts     *)
(* before the module is imported; Construct is the import of the module    *)
(* (cache.py line 179) and, later, the start of another process.           *)
(***************************************************************************)
\* the text json.dump had written when the process that wrote it stopped
Truncated(text) == SubSeq(text, 1, Len(text) - 1)

\* the text of a file of which the storage has damaged the first bytes
Damaged(text) == <<BadByte>> \o Tail(text)

\* the storage roots the process may find: none at all; AAPL with prices and
\* a financial_metrics.json cut short, MSFT with insider trades, line items
\* and news cut short; AAPL with prices and a damaged
\* financial_metrics.json, MSFT an empty directory
DiskImages ==
    LET P(c) == JsonDump(c, <<Rec(c, Day1, PayloadA(c))>>)
        L == JsonDump("line_items",
                      QueryKey(<<FieldF>>, <<"d">>, <<"t">>)
                        :> <<[report_period |-> Day1, revenue |-> 100]>>)
    IN  {[base |-> FALSE, dirs |-> {}, files |-> EmptyDict],
         [base |-> TRUE, dirs |-> {"AAPL", "MSFT"},
          files |-> (FilePath("AAPL", "prices") :> P("prices"))
                    @@ (FilePath("AAPL", "financial_metrics")
                          :> Truncated(P("financial_metrics")))
                    @@ (FilePath("MSFT", "insider_trades") :> P("insider_trades"))
                    @@ (FilePath("MSFT", "line_items") :> L)
                    @@ (FilePath("MSFT", "company_news") :> Truncated(P("company_news")))],
         [base |-> TRUE, dirs |-> {"AAPL", "MSFT"},
          files |-> (FilePath("AAPL", "prices") :> P("prices"))
                    @@ (FilePath("AAPL", "financial_metrics")
                          :> Damaged(P("financial_metrics")))]}

\* the batch handed to set_* over such a root: it overlaps the stored record
\* with another payload and brings a new day
DiskBatch(c) == <<Rec(c, Day1, PayloadB(c)), Rec(c, Day2, PayloadA(c))>>

\* the module was imported: get_cache() has a Cache object to return
Imported == last.op # "none" /\ ~(last.op = "__init__" /\ last.raised)

InitDisk ==
    \E image \in DiskImages :
        /\ base_exists = image.base
        /\ dirs = image.dirs
        /\ files = image.files
        /\ prices_cache = EmptyDict
        /\ financial_metrics_cache = EmptyDict
        /\ line_items_cache = EmptyDict
        /\ insider_trades_cache = EmptyDict
        /\ company_news_cache = EmptyDict
        /\ last = NoCall
        /\ hist = [p \in MergedCollections \X Tickers |-> <<>>]
        /\ li_keys = [t \in Tickers |-> {}]
        /\ nops = 0
        /\ m = MOff
        /\ inst = [OneInstance EXCEPT !.count = 0, !.global = 0]
        /\ th = NoThreads
        /\ al = AliasOff

NextDisk ==
    \/ Construct
    \/ Imported /\ \E t \in Tickers, io \in IoOutcomes :
          set_prices(t, DiskBatch("prices"), io)
    \/ Imported /\ \E t \in Tickers, io \in IoOutcomes :
          set_financial_metrics(t, DiskBatch("financial_metrics"), io)
    \/ Imported /\ \E io \in IoOutcomes :
          set_insider_trades("MSFT", DiskBatch("insider_trades"), io)
    \/ Imported /\ \E io \in IoOutcomes :
          set_company_news("MSFT", DiskBatch("company_news"), io)
    \/ Imported /\ \E io \in IoOutcomes :
          set_line_items("MSFT", <<FieldG, FieldF>>, <<"d">>, <<"t">>,
                         <<[report_period |-> Day2, revenue |-> 101]>>, io)
    \/ Imported /\ \E t \in Tickers : get_prices(t)
    \/ Imported /\ \E t \in Tickers : get_financial_metrics(t)
    \/ Imported /\ get_insider_trades("MSFT")
    \/ Imported /\ get_company_news("MSFT")
    \/ Imported /\ \E fl \in {<<FieldF>>, <<FieldF, FieldG>>} :
          get_line_items("MSFT", fl, <<"d">>, <<"t">>)

SpecDisk == InitDisk /\ [][NextDisk]_vars

(***************************************************************************)
(* Two threads of one process, each inside one call of set_prices or       *)
(* get_prices on the shared Cache object.  Nothing in cache.py takes a     *)
(* lock, so a thread may be preempted between any two of the steps below:  *)
(* the dict lookup, the store of the merged list, mkdir, the evaluation of *)
(* the argument of _save_file, open(.., 'w') and the close that flushes    *)
(* the buffered text (the lists of the model fit in one buffer).  The      *)
(* other three merged collections run the same code on their own dicts.    *)
(***************************************************************************)
\* line 92: self._prices_cache.get(ticker)
T_ReadExisting(k) ==
    /\ th[k].pc = "start"
    /\ th[k].op = "set_prices"
    /\ th' = [th EXCEPT ![k].pc = "merge",
                        ![k].existing = DictGet(prices_cache, th[k].ticker)]
    /\ UNCHANGED <<caches, disk, last, hist, li_keys, nops, m, inst, al>>

\* lines 91-95: _merge_data on the list that was looked up, and the store of
\* its result under the ticker
T_StoreMerged(k) ==
    /\ th[k].pc = "merge"
    /\ LET merged == MergeData(th[k].existing, th[k].data, "time")
       IN  /\ prices_cache' = DictPut(prices_cache, th[k].ticker, merged)
           /\ th' = [th EXCEPT ![k].pc = "mkdir", ![k].merged = merged]
    /\ UNCHANGED <<financial_metrics_cache, line_items_cache, insider_trades_cache,
                   company_news_cache, disk, last, hist, li_keys, nops, m, inst, al>>

\* line 98: _ensure_ticker_dir(ticker); a directory that exists is no error
T_EnsureTickerDir(k) ==
    /\ th[k].pc = "mkdir"
    /\ base_exists' = TRUE
    /\ dirs' = dirs \cup {th[k].ticker}
    /\ th' = [th EXCEPT ![k].pc = "arg"]
    /\ UNCHANGED <<caches, files, last, hist, li_keys, nops, m, inst, al>>

\* line 99: the argument self._prices_cache[ticker] is looked up again, and
\* json.dump will write the list found now
T_ReadForSave(k) ==
    /\ th[k].pc = "arg"
    /\ th' = [th EXCEPT ![k].pc = "open",
                        ![k].text = JsonDump("prices", prices_cache[th[k].ticker])]
    /\ UNCHANGED <<caches, disk, last, hist, li_keys, nops, m, inst, al>>

\* line 67: open(file_path, 'w') creates the file or cuts it to length 0
T_OpenFile(k) ==
    /\ th[k].pc = "open"
    /\ files' = DictPut(files, FilePath(th[k].ticker, "prices"), <<>>)
    /\ th' = [th EXCEPT ![k].pc = "close"]
    /\ UNCHANGED <<caches, base_exists, dirs, last, hist, li_keys, nops, m, inst, al>>

\* the text written at position 0 of a file that holds old
WriteAtStart(old, text) == text \o SubSeq(old, Len(text) + 1, Len(old))

\* lines 67-68: leaving the with block flushes the text of json.dump to the
\* start of the file, over what another handle may have written meanwhile
T_CloseFile(k) ==
    /\ th[k].pc = "close"
    /\ LET path == FilePath(th[k].ticker, "prices")
       IN  files' = DictPut(files, path, WriteAtStart(files[path], th[k].text))
    /\ th' = [th EXCEPT ![k].pc = "done"]
    /\ UNCHANGED <<caches, base_exists, dirs, last, hist, li_keys, nops, m, inst, al>>

\* line 87: get_prices is one dict lookup
T_GetPrices(k) ==
    /\ th[k].pc = "start"
    /\ th[k].op = "get_prices"
    /\ th' = [th EXCEPT ![k].pc = "done", ![k].ret = GetMerged(prices_cache, th[k].ticker)]
    /\ UNCHANGED <<caches, disk, last, hist, li_keys, nops, m, inst, al>>

\* the batches the two threads hand to set_prices
ThreadBatches ==
    {<<Rec("prices", Day1, 100)>>, <<Rec("prices", Day1, 101), Rec("prices", Day2, 101)>>}

\* the prices the cache holds, in memory and in the files, when the threads
\* start: none, or one record of an earlier day for AAPL
ThreadStarts == {EmptyDict, "AAPL" :> <<[time |-> "2023-12-31", close |-> 99]>>}

\* the calls a thread may be in
ThreadCalls ==
    {[ThreadOff EXCEPT !.pc = "start", !.op = "set_prices", !.ticker = t, !.data = d] :
        t \in Tickers, d \in ThreadBatches}
    \cup {[ThreadOff EXCEPT !.pc = "start", !.op = "get_prices", !.ticker = t] : t \in Tickers}

InitThreads ==
    \E p0 \in ThreadStarts :
        /\ prices_cache = p0
        /\ financial_metrics_cache = EmptyDict
        /\ line_items_cache = EmptyDict
        /\ insider_trades_cache = EmptyDict
        /\ company_news_cache = EmptyDict
        /\ base_exists = TRUE
        /\ dirs = DOMAIN p0
        /\ files = [path \in {FilePath(t, "prices") : t \in DOMAIN p0}
                      |-> JsonDump("prices", p0[path[1]])]
        /\ last = [NoCall EXCEPT !.op = "__init__"]
        /\ hist = [p \in MergedCollections \X Tickers |-> <<>>]
        /\ li_keys = [t \in Tickers |-> {}]
        /\ nops = 0
        /\ m = MOff
        /\ inst = OneInstance
        /\ al = AliasOff
        /\ \E calls \in [Threads -> ThreadCalls] :
              th = [k \in Threads |->
                      [calls[k] EXCEPT !.start = DictGet(p0, calls[k].ticker)]]

NextThreads ==
    \E k \in Threads :
        \/ T_ReadExisting(k)
        \/ T_StoreMerged(k)
        \/ T_EnsureTickerDir(k)
        \/ T_ReadForSave(k)
        \/ T_OpenFile(k)
        \/ T_CloseFile(k)
        \/ T_GetPrices(k)

SpecThreads == InitThreads /\ [][NextThreads]_vars

(***************************************************************************)
(* get_cache(): the callers of one process fetch the Cache object and      *)
(* call it through the reference they got.  The state of the object that   *)
(* the global _cache names is the state of the five dicts.                 *)
(***************************************************************************)
\* a plausible slip: get_cache builds a Cache of its own for every call
get_cache_New(k) ==
    /\ inst' = [inst EXCEPT !.count = @ + 1, !.refs[k] = inst.count + 1]
    /\ UNCHANGED <<caches, disk, last, hist, li_keys, nops, m, th, al>>

\* lines 182-184: return _cache
get_cache(k) ==
    /\ inst' = [inst EXCEPT !.refs[k] = inst.global]
    /\ UNCHANGED <<caches, disk, last, hist, li_keys, nops, m, th, al>>

\* some caller holds the object that _cache names, and calls it
HasCache == \E k \in Callers : inst.refs[k] # 0 /\ inst.refs[k] = inst.global

NextSingleton ==
    \/ \E k \in Callers : get_cache(k)
    \/ HasCache /\ \E t \in Tickers, data \in Batches("prices") : set_prices(t, data, "ok")
    \/ HasCache /\ \E t \in Tickers : get_prices(t)
    \/ Construct

SpecSingleton == Init /\ [][NextSingleton]_vars

(***************************************************************************)
(* Batches with a record that lacks the identity field: callers hand them  *)
(* to set_prices and set_company_news of a cache on an empty storage root. *)
(***************************************************************************)
\* a well-formed first fetch, a record without the identity field, and a
\* batch in which such a record follows a well-formed one
MalformedBatches(c) ==
    {<<>>,
     <<Rec(c, Day1, PayloadA(c))>>,
     <<(PayloadField(c) :> PayloadB(c))>>,
     <<Rec(c, Day2, PayloadB(c)), (PayloadField(c) :> PayloadA(c))>>}

NextMalformed ==
    \/ \E t \in Tickers, data \in MalformedBatches("prices") : set_prices(t, data, "ok")
    \/ \E data \in MalformedBatches("company_news") : set_company_news("AAPL", data, "ok")
    \/ \E t \in Tickers : get_prices(t)
    \/ get_company_news("AAPL")
    \/ Construct

SpecMalformed == Init /\ [][NextMalformed]_vars

(***************************************************************************)
(* Lists as objects.  A Python list is an object that the dict, the        *)
(* caller's variables and the results of get_prices refer to; al.objs is   *)
(* the heap (a reference is an index into it) and al.cache is              *)
(* _prices_cache as a dict from ticker to reference.  One ticker is used.  *)
(* A writer runs set_prices step by step: the lookup, the copy of the      *)
(* stored list, its extension, the store into the dict, the persisting.    *)
(* get_prices may run between any two steps (another thread), and between  *)
(* calls the caller of set_prices may change its own batch in place.       *)
(***************************************************************************)
AliasTicker == "AAPL"

\* the list al.cache refers to for the ticker, or None
AliasContent(a) ==
    IF AliasTicker \in DOMAIN a.cache THEN Some(a.objs[a.cache[AliasTicker]]) ELSE None

\* the batches of the calls: two records of which the first has the day of
\* the stored record, and one record of that day
AliasBatches ==
    {<<Rec("prices", Day1, 101), Rec("prices", Day2, 101)>>, <<Rec("prices", Day1, 100)>>}

\* the caller builds its list and calls set_prices(ticker, data)
A_Call(batch) ==
    /\ al.w.pc = "idle"
    /\ nops < MaxOps
    /\ al' = [al EXCEPT !.objs = Append(@, batch),
                        !.w = [WriterIdle EXCEPT !.pc = "lookup", !.data = Len(al.objs) + 1,
                                                 !.handed = batch],
                        !.op = "call"]
    /\ nops' = nops + 1
    /\ UNCHANGED <<caches, disk, last, hist, li_keys, m, inst, th>>

\* lines 92 and 74-75: the lookup, and the cold path that returns new_data,
\* the caller's own list
A_Lookup ==
    /\ al.w.pc = "lookup"
    /\ LET existing == DictGet(al.cache, AliasTicker)
           cold == existing.absent \/ al.objs[existing.value] = <<>>
       IN  al' = [al EXCEPT !.w.existing = existing,
                            !.w.merged = IF cold THEN al.w.data ELSE 0,
                            !.w.pc = IF cold THEN "store" ELSE "copy",
                            !.results = @ \cup {MergeData(AliasContent(al),
                                                          al.objs[al.w.data], "time")},
                            !.op = "lookup"]
    /\ UNCHANGED <<caches, disk, last, hist, li_keys, nops, m, inst, th>>

\* a plausible slip: no copy is made, the merge works on the stored list
A_Copy_Alias ==
    /\ al.w.pc = "copy"
    /\ al' = [al EXCEPT !.w.merged = al.w.existing.value, !.w.pc = "extend", !.op = "copy"]
    /\ UNCHANGED <<caches, disk, last, hist, li_keys, nops, m, inst, th>>

\* a plausible slip: the copy is put into the dict before it is extended
A_Copy_Publish ==
    /\ al.w.pc = "copy"
    /\ al' = [al EXCEPT !.objs = Append(@, al.objs[al.w.existing.value]),
                        !.w.merged = Len(al.objs) + 1,
                        !.cache = DictPut(@, AliasTicker, Len(al.objs) + 1),
                        !.w.pc = "extend", !.op = "copy"]
    /\ UNCHANGED <<caches, disk, last, hist, li_keys, nops, m, inst, th>>

\* line 81: merged = existing.copy(), a new list object
A_Copy ==
    /\ al.w.pc = "copy"
    /\ al' = [al EXCEPT !.objs = Append(@, al.objs[al.w.existing.value]),
                        !.w.merged = Len(al.objs) + 1,
                        !.w.pc = "extend", !.op = "copy"]
    /\ UNCHANGED <<caches, disk, last, hist, li_keys, nops, m, inst, th>>

\* lines 78 and 82: merged.extend(..) with the records of new_data whose
\* identity value the stored list lacks
A_Extend ==
    /\ al.w.pc = "extend"
    /\ LET existing_keys == KeySet(al.objs[al.w.existing.value], "time")
       IN  al' = [al EXCEPT !.objs[al.w.merged] =
                                @ \o SelectSeq(al.objs[al.w.data],
                                               LAMBDA item : item["time"] \notin existing_keys),
                            !.w.pc = "store", !.op = "extend"]
    /\ UNCHANGED <<caches, disk, last, hist, li_keys, nops, m, inst, th>>

\* line 91: self._prices_cache[ticker] = the list _merge_data returned
A_Store ==
    /\ al.w.pc = "store"
    /\ al' = [al EXCEPT !.cache = DictPut(@, AliasTicker, al.w.merged),
                        !.w.pc = "persist", !.op = "store"]
    /\ UNCHANGED <<caches, disk, last, hist, li_keys, nops, m, inst, th>>

\* lines 98-99: the directory is ensured and the list the dict refers to is
\* written; the call returns
A_Persist ==
    /\ al.w.pc = "persist"
    /\ base_exists' = TRUE
    /\ dirs' = dirs \cup {AliasTicker}
    /\ files' = DictPut(files, FilePath(AliasTicker, "prices"),
                        JsonDump("prices", al.objs[al.cache[AliasTicker]]))
    /\ al' = [al EXCEPT !.w.pc = "idle", !.op = "persist"]
    /\ UNCHANGED <<caches, last, hist, li_keys, nops, m, inst, th>>

\* line 87: get_prices returns the reference the dict holds; the caller's
\* view of the list at that moment is kept for comparison
A_Get ==
    /\ nops < MaxOps
    /\ al' = [al EXCEPT !.got = Append(@, [ref |-> DictGet(al.cache, AliasTicker),
                                           seen |-> AliasContent(al).value,
                                           during |-> al.w.pc]),
                        !.op = "get"]
    /\ nops' = nops + 1
    /\ UNCHANGED <<caches, disk, last, hist, li_keys, m, inst, th>>

\* after its set_prices has returned, the caller appends a record to the
\* list it had handed over, or empties that list
A_MutateBatch(change) ==
    /\ al.w.pc = "idle"
    /\ al.w.data # 0
    /\ nops < MaxOps
    /\ al' = [al EXCEPT !.objs[al.w.data] =
                            IF change = "append"
                            THEN Append(@, [time |-> "2024-01-09", close |-> 109])
                            ELSE <<>>,
                        !.mutated = TRUE, !.op = "mutate"]
    /\ nops' = nops + 1
    /\ UNCHANGED <<caches, disk, last, hist, li_keys, m, inst, th>>

\* what the ticker holds when the callers start: nothing, an empty list, or
\* one record, in memory and in the file
AliasStarts == {None, Some(<<>>), Some(<<Rec("prices", Day1, 99)>>)}

InitAlias ==
    \E s0 \in AliasStarts :
        /\ prices_cache = EmptyDict
        /\ financial_metrics_cache = EmptyDict
        /\ line_items_cache = EmptyDict
        /\ insider_trades_cache = EmptyDict
        /\ company_news_cache = EmptyDict
        /\ base_exists = TRUE
        /\ dirs = IF s0.absent THEN {} ELSE {AliasTicker}
        /\ files = IF s0.absent THEN EmptyDict
                   ELSE FilePath(AliasTicker, "prices") :> JsonDump("prices", s0.value)
        /\ last = [NoCall EXCEPT !.op = "__init__"]
        /\ hist = [p \in MergedCollections \X Tickers |-> <<>>]
        /\ li_keys = [t \in Tickers |-> {}]
        /\ nops = 0
        /\ m = MOff
        /\ inst = OneInstance
        /\ th = NoThreads
        /\ al = [AliasOff EXCEPT !.objs = IF s0.absent THEN <<>> ELSE <<s0.value>>,
                                 !.cache = IF s0.absent THEN EmptyDict
                                           ELSE AliasTicker :> 1,
                                 !.results = IF s0.absent THEN {} ELSE {s0.value},
                                 !.start = s0]

NextAlias ==
    \/ \E batch \in AliasBatches : A_Call(batch)
    \/ A_Lookup
    \/ A_Copy
    \/ A_Extend
    \/ A_Store
    \/ A_Persist
    \/ A_Get
    \/ \E change \in {"append", "clear"} : A_MutateBatch(change)

SpecAlias == InitAlias /\ [][NextAlias]_vars

(***************************************************************************)
(* Helpers of the properties.                                              *)
(***************************************************************************)
\* a is an initial segment of b
IsPrefix(a, b) == Len(a) <= Len(b) /\ SubSeq(b, 1, Len(a)) = a

\* a can be obtained from b by deleting elements (the order is kept)
RECURSIVE IsSubsequence(_, _)
IsSubsequence(a, b) ==
    IF a = <<>> THEN TRUE
    ELSE IF b = <<>> THEN FALSE
    ELSE IF Head(a) = Head(b) THEN IsSubsequence(Tail(a), Tail(b))
    ELSE IsSubsequence(a, Tail(b))

\* no two records of s share the value of key_field
DistinctKeys(s, key_field) ==
    \A i, j \in 1..Len(s) : i # j => s[i][key_field] # s[j][key_field]

\* the identity values of all the batches handed to set_* of <<c, t>>
Supplied(c, t) ==
    UNION {KeySet(hist[<<c, t>>][k], KeyField(c)) : k \in 1..Len(hist[<<c, t>>])}

(***************************************************************************)
(* Properties.                                                             *)
(***************************************************************************)

\* C1: in each of the four merged collections, no two stored records share
\* the same identity-field value, whatever batches were handed to set_*.
C1_IdentityUnique ==
    \A c \in MergedCollections : \A t \in Tickers :
        DistinctKeys(GetMerged(Cache(c), t).value, KeyField(c))

\* C2: the identity values that get_X(T) holds are exactly the union of the
\* identity values of all batches handed to set_X(T, ..), also after the
\* cache was built again from the disk.
C2_NoDataLoss ==
    \A c \in MergedCollections : \A t \in Tickers :
        KeySet(GetMerged(Cache(c), t).value, KeyField(c)) = Supplied(c, t)

\* two set_* calls with different, non-empty batches on one collection, the
\* second one bringing an identity value the first did not have
C2_Witness ==
    \E c \in MergedCollections : \E t \in Tickers :
        /\ Len(hist[<<c, t>>]) = 2
        /\ hist[<<c, t>>][1] # <<>>
        /\ ~(KeySet(hist[<<c, t>>][2], KeyField(c)) \subseteq
               KeySet(hist[<<c, t>>][1], KeyField(c)))
        /\ Cardinality(KeySet(GetMerged(Cache(c), t).value, KeyField(c))) = 2

\* C3: merge(E, I) starts with E, record for record, and what follows are
\* records of I in the order they have in I; nothing is sorted.
C3_OrderPreserved ==
    m.pc \in {"once", "twice"} =>
        LET E == m.existing.value
        IN  /\ IsPrefix(E, m.once)
            /\ IsSubsequence(SubSeq(m.once, Len(E) + 1, Len(m.once)), m.incoming)

\* a merge that appended a record of an earlier day behind a later one
C3_Witness ==
    /\ m.pc = "once"
    /\ m.existing.value # <<>>
    /\ Len(m.once) > Len(m.existing.value)
    /\ m.once[1][KeyField(m.coll)] = Day2
    /\ m.once[Len(m.once)][KeyField(m.coll)] = Day1

\* C4: merging the same batch a second time changes nothing.
C4_MergeIdempotent ==
    m.pc = "twice" => m.twice = m.once

\* a second merge of a batch that had added records with a repeated identity
\* value to a non-empty list
C4_Witness ==
    /\ m.pc = "twice"
    /\ m.existing.value # <<>>
    /\ Len(m.once) = Len(m.existing.value) + 2
    /\ ~DistinctKeys(m.incoming, KeyField(m.coll))

\* C5: set_X(T, A) then set_X(T, B) on a fresh cache, A non-empty with
\* distinct identity values and B overlapping A: get_X(T) is A followed by
\* exactly the records of B whose identity value does not occur in A.
C5_OverlappingRefetch ==
    \A c \in MergedCollections : \A t \in Tickers :
        LET h == hist[<<c, t>>] IN
        (/\ Len(h) = 2
         /\ h[1] # <<>>
         /\ DistinctKeys(h[1], KeyField(c))
         /\ KeySet(h[1], KeyField(c)) \cap KeySet(h[2], KeyField(c)) # {})
        => GetMerged(Cache(c), t) =
             Some(h[1] \o SelectSeq(h[2], LAMBDA r :
                                      r[KeyField(c)] \notin KeySet(h[1], KeyField(c))))

\* the stored record of Day1 kept its payload and the record of Day2 was added
C5_Witness ==
    \E t \in Tickers :
        /\ hist[<<"prices", t>>] = << <<Rec("prices", Day1, 100)>>,
                                      <<Rec("prices", Day1, 101), Rec("prices", Day2, 101)>> >>
        /\ GetMerged(prices_cache, t) =
             Some(<<Rec("prices", Day1, 100), Rec("prices", Day2, 101)>>)

\* C6: a get_* for a ticker that was never written and has no file returns
\* None, not an empty list; after set_X(T, []) on such a ticker get_X(T)
\* returns the empty list; get_line_items returns None when the ticker or the
\* query key was never stored.
C6_AbsentVersusEmpty ==
    /\ \A c \in MergedCollections : \A t \in Tickers :
         /\ (hist[<<c, t>>] = <<>> /\ FilePath(t, c) \notin DOMAIN files)
              => GetMerged(Cache(c), t) = None
         /\ hist[<<c, t>>] = << <<>> >> => GetMerged(Cache(c), t) = Some(<<>>)
    /\ (last.op = "get" /\ hist[<<last.coll, last.ticker>>] = <<>>) => last.ret = None
    /\ \A t \in Tickers : \A fl \in FieldLists, d \in EndDates, p \in Periods :
         QueryKey(fl, d, p) \notin li_keys[t]
           => GetLineItems(line_items_cache, t, fl, d, p) = None
    /\ (last.op = "get_line_items"
          /\ QueryKey(last.line_items, last.end_date, last.period) \notin li_keys[last.ticker])
         => last.ret = None
    /\ (last.op = "set_line_items" /\ last.data = <<>>)
         => GetLineItems(line_items_cache, last.ticker, last.line_items,
                         last.end_date, last.period) = Some(<<>>)

\* a get_* that returned the empty list of a ticker whose only set_* had an
\* empty batch, while the other ticker is still absent
C6_Witness ==
    /\ last.op = "get"
    /\ hist[<<last.coll, last.ticker>>] = << <<>> >>
    /\ last.ret = Some(<<>>)
    /\ \E t \in Tickers \ {last.ticker} : GetMerged(Cache(last.coll), t) = None

\* the dict of line items as it was before the last call
LineItemsBefore ==
    IF last.before.absent THEN EmptyDict ELSE last.ticker :> last.before.value

\* C7: a set_line_items for one query never changes what get_line_items
\* returns for a query that differs in the end date, the period or the set of
\* names, whatever strings these are.
C7_KeysDiscriminate ==
    last.op = "set_line_items" =>
        \A fl \in FieldLists, d \in EndDates, p \in Periods :
            (d # last.end_date \/ p # last.period \/ Elems(fl) # Elems(last.line_items))
            => GetLineItems(line_items_cache, last.ticker, fl, d, p)
                 = GetLineItems(LineItemsBefore, last.ticker, fl, d, p)

\* the lists that hold the elements of s in another order
PermutationsOf(s) ==
    {[i \in 1..Len(s) |-> s[f[i]]] : f \in Permutations(1..Len(s))}

\* C8: after set_line_items(T, F, d, p, R), get_line_items(T, F', d, p)
\* returns R for every F' that lists the names of F in another order.
C8_FieldOrderIndependent ==
    last.op = "set_line_items" =>
        \A fl \in PermutationsOf(last.line_items) :
            GetLineItems(line_items_cache, last.ticker, fl, last.end_date, last.period)
              = Some(last.data)

\* a set_line_items whose names were listed in descending order
C8_Witness ==
    /\ last.op = "set_line_items"
    /\ last.line_items = <<FieldG, FieldF>>
    /\ last.data # <<>>
    /\ GetLineItems(line_items_cache, last.ticker, <<FieldF, FieldG>>,
                    last.end_date, last.period) = Some(last.data)

\* C9: set_line_items stores its records as they are: the key of the call
\* holds exactly the new list, and every other key of the ticker keeps the
\* list it had.
C9_LineItemsReplace ==
    last.op = "set_line_items" =>
        LET D == IF last.before.absent THEN EmptyDict ELSE last.before.value
            key == QueryKey(last.line_items, last.end_date, last.period)
            now == line_items_cache[last.ticker]
        IN  /\ GetLineItems(line_items_cache, last.ticker, last.line_items,
                            last.end_date, last.period) = Some(last.data)
            /\ DOMAIN now = DOMAIN D \cup {key}
            /\ \A k \in DOMAIN D \ {key} : now[k] = D[k]

\* a second set_line_items on a key that held another non-empty list, with a
\* further key stored for the same ticker
C9_Witness ==
    /\ last.op = "set_line_items"
    /\ ~last.before.absent
    /\ LET D == last.before.value
           key == QueryKey(last.line_items, last.end_date, last.period)
       IN  /\ key \in DOMAIN D
           /\ D[key] # <<>>
           /\ last.data # <<>>
           /\ D[key] # last.data
           /\ DOMAIN D # {key}
           /\ line_items_cache[last.ticker][key] = last.data

\* C10: a Cache built afresh from the disk answers every get_* as the
\* instance that wrote the files does, for all five collections and every
\* query key.
C10_RoundTrip ==
    /\ \A c \in MergedCollections :
         LET fresh == LoadCache(c)
         IN  \A t \in Tickers : GetMerged(fresh, t) = GetMerged(Cache(c), t)
    /\ LET fresh == LoadCache("line_items")
       IN  /\ DOMAIN fresh = DOMAIN line_items_cache
           /\ \A t \in DOMAIN fresh : \A k \in DOMAIN fresh[t] \cup DOMAIN line_items_cache[t] :
                 DictGet(fresh[t], k) = DictGet(line_items_cache[t], k)
           /\ \A t \in Tickers : \A fl \in FieldLists, d \in EndDates, p \in Periods :
                 GetLineItems(fresh, t, fl, d, p) = GetLineItems(line_items_cache, t, fl, d, p)

\* a process started after two records of prices and a list of line items
\* were written
C10_Witness ==
    /\ last.op = "__init__"
    /\ \E t \in Tickers : GetMerged(prices_cache, t).value # <<>>
    /\ \E t \in Tickers :
         GetLineItems(line_items_cache, t, <<FieldF, FieldG>>, <<"d">>, <<"t">>).value # <<>>

(***************************************************************************)
(* Properties of persistence, failures and hydration.                      *)
(***************************************************************************)
\* the last call was a set_* of one of the five collections
LastIsSet == last.op \in {"set", "set_line_items"}

\* what the collection of the last call holds in memory for its ticker
LastInMemory == DictGet(Cache(last.coll), last.ticker)

\* the in-memory value the last set_* had to leave behind
LastExpected ==
    IF last.op = "set" THEN MergeData(last.before, last.data, KeyField(last.coll))
    ELSE StoreLineItems(IF last.before.absent THEN EmptyDict ELSE last.before.value,
                        QueryKey(last.line_items, last.end_date, last.period), last.data)

\* C11: when a set_* of collection X and ticker T has returned and its write
\* succeeded, the file <base>/T/<X>.json exists and holds the whole in-memory
\* content of X for T (the merged list, not the new batch alone).
C11_SynchronousPersistence ==
    (LastIsSet /\ last.io = "ok") =>
        LET path == FilePath(last.ticker, last.coll)
        IN  /\ base_exists
            /\ last.ticker \in dirs
            /\ path \in DOMAIN files
            /\ ~LastInMemory.absent
            /\ files[path] = JsonDump(last.coll, LastInMemory.value)
            /\ LoadFile(files, path) = LastInMemory

\* a successful set_* whose merged list is neither the new batch nor the list
\* stored before, and is what the file holds
C11_Witness ==
    /\ last.op = "set"
    /\ last.io = "ok"
    /\ ~last.before.absent
    /\ LastInMemory.value # last.data
    /\ LastInMemory.value # last.before.value
    /\ LoadFile(files, FilePath(last.ticker, last.coll)) = LastInMemory

\* C12: a set_* on collection X of ticker T changes neither the in-memory
\* content nor the file of any other collection of T or of any collection of
\* another ticker, whether its own write succeeds or fails.
C12_Frame ==
    [][(nops' = nops + 1 /\ last'.op \in {"set", "set_line_items"}) =>
         \A c \in Collections : \A t \in Tickers :
            <<c, t>> # <<last'.coll, last'.ticker>> =>
               /\ DictGet(Cache(c), t)' = DictGet(Cache(c), t)
               /\ DictGet(files, FilePath(t, c))' = DictGet(files, FilePath(t, c))]_vars

\* a set_prices for MSFT whose write failed, while MSFT has insider trades
\* in memory and in a file and AAPL has prices in memory and in a file
C12_Witness ==
    /\ last.op = "set"
    /\ last.coll = "prices"
    /\ last.ticker = "MSFT"
    /\ last.io = "write_error"
    /\ "MSFT" \in DOMAIN insider_trades_cache
    /\ LoadFile(files, FilePath("MSFT", "insider_trades")) = Some(insider_trades_cache["MSFT"])
    /\ "AAPL" \in DOMAIN prices_cache
    /\ LoadFile(files, FilePath("AAPL", "prices")) = Some(prices_cache["AAPL"])

\* C13: a set_* whose persisting fails, in creating the ticker's directory or
\* in writing the file, returns without raising and leaves the merged result
\* in memory.
C13_WriteFailureContained ==
    (LastIsSet /\ last.io # "ok") =>
        /\ ~last.raised
        /\ LastInMemory = Some(LastExpected)

\* C14: a Cache built over a root with a file that cannot be parsed is built
\* without raising; it holds every file that can be parsed, and nothing for
\* the one that cannot.
C14_LoadCorruptionIsolated ==
    last.op = "__init__" =>
        /\ ~last.raised
        /\ \A c \in Collections : \A t \in dirs :
             FilePath(t, c) \in DOMAIN files =>
                LET r == JsonLoad(files[FilePath(t, c)])
                IN  DictGet(Cache(c), t) = IF r.ok THEN Some(r.v) ELSE None

\* the dict of collection c in the tuple cs of the five dicts
CacheIn(cs, c) ==
    CASE c = "prices" -> cs[1]
      [] c = "financial_metrics" -> cs[2]
      [] c = "line_items" -> cs[3]
      [] c = "insider_trades" -> cs[4]
      [] c = "company_news" -> cs[5]

\* in the five dicts cs every collection of every ticker holds what its file
\* holds on the disk <<b, ds, fs>>, and is absent where there is no directory,
\* no file, or no JSON document in the file
Hydrated(cs, b, ds, fs) ==
    \A c \in Collections : \A t \in Tickers :
        DictGet(CacheIn(cs, c), t) =
            IF b /\ t \in ds THEN LoadFile(fs, FilePath(t, c)) ELSE None

C16_GetReadOnly ==
    [][(nops' = nops + 1 /\ last'.op \in {"get", "get_line_items"}) =>
         UNCHANGED <<caches, disk>>]_vars

\* a get_line_items that missed: the ticker has no entry and no directory
C16_Witness ==
    /\ last.op = "get_line_items"
    /\ last.ret = None
    /\ last.ticker \notin DOMAIN line_items_cache
    /\ last.ticker \notin dirs

(***************************************************************************)
(* Properties of the two threads.                                          *)
(***************************************************************************)
\* both calls have returned
AllDone == \A k \in Threads : th[k].pc = "done"

\* the identity values of thread k's batch that the stored prices lack
LostKeys(k) ==
    KeySet(th[k].data, "time") \ KeySet(GetMerged(prices_cache, th[k].ticker).value, "time")

\* C17: two set_prices for the same ticker that run in two threads without a
\* lock end with the result of the two calls in one order or the other, or
\* with the result of one call alone: an update is lost, and it is lost only
\* when both threads looked the ticker up before either had stored.
C17_SameTickerRace ==
    \A k1 \in Threads : \A k2 \in Threads \ {k1} :
        (/\ AllDone
         /\ th[k1].op = "set_prices"
         /\ th[k2].op = "set_prices"
         /\ th[k1].ticker = th[k2].ticker)
        => LET s0 == th[k1].start
               A == MergeData(s0, th[k1].data, "time")
               B == MergeData(s0, th[k2].data, "time")
               AB == MergeData(Some(A), th[k2].data, "time")
               BA == MergeData(Some(B), th[k1].data, "time")
           IN  /\ GetMerged(prices_cache, th[k1].ticker).value \in {A, B, AB, BA}
               /\ (LostKeys(k1) # {} \/ LostKeys(k2) # {})
                    => (th[k1].existing = s0 /\ th[k2].existing = s0)

\* both calls have returned and the prices of the ticker lack a day that one
\* of the two batches brought
C17_Witness ==
    /\ AllDone
    /\ \A k \in Threads : th[k].op = "set_prices" /\ th[k].ticker = "AAPL"
    /\ \E k \in Threads : LostKeys(k) # {}

\* C18: calls on different tickers that run in two threads end, whatever the
\* interleaving, as they end when run one after the other: each set_prices
\* has merged its batch into what its ticker held and the ticker's file holds
\* that list, each get_prices has returned what its ticker held and changed
\* nothing.
C18_DifferentTickers ==
    (AllDone /\ \A k1 \in Threads : \A k2 \in Threads \ {k1} : th[k1].ticker # th[k2].ticker)
    => /\ \A k \in Threads :
            LET t == th[k].ticker
                want == IF th[k].op = "set_prices"
                        THEN Some(MergeData(th[k].start, th[k].data, "time"))
                        ELSE th[k].start
            IN  /\ GetMerged(prices_cache, t) = want
                /\ DictGet(files, FilePath(t, "prices")) =
                     IF want.absent THEN None ELSE Some(JsonDump("prices", want.value))
                /\ th[k].op = "set_prices" => t \in dirs
                /\ th[k].op = "get_prices" => th[k].ret = th[k].start
       /\ DOMAIN files \subseteq {FilePath(t, "prices") : t \in Tickers}

\* two set_prices on different tickers have returned, one of them on a ticker
\* that held a record before
C18_Witness ==
    /\ AllDone
    /\ th["th1"].ticker # th["th2"].ticker
    /\ \A k \in Threads : th[k].op = "set_prices"
    /\ \E k \in Threads :
         /\ ~th[k].start.absent
         /\ Len(prices_cache[th[k].ticker]) > Len(th[k].start.value)

(***************************************************************************)
(* Properties of get_cache() and of _merge_data's cold path.               *)
(***************************************************************************)
\* C19: a process builds one Cache object, and every get_cache() returns
\* that object: all the references the callers hold are the same, so that a
\* get_* through any of them returns what the set_* through any of them have
\* stored.
C19_Singleton ==
    /\ inst.count = 1
    /\ \A k \in Callers : inst.refs[k] \in {0, inst.global}
    /\ \A k1 \in Callers : \A k2 \in Callers :
         (inst.refs[k1] # 0 /\ inst.refs[k2] # 0) => inst.refs[k1] = inst.refs[k2]
    /\ (last.op = "get" /\ hist[<<last.coll, last.ticker>>] # <<>>) =>
         /\ ~last.ret.absent
         /\ KeySet(last.ret.value, KeyField(last.coll)) = Supplied(last.coll, last.ticker)

\* both callers hold a reference, and a get_prices has returned the records
\* that a set_prices stored
C19_Witness ==
    /\ \A k \in Callers : inst.refs[k] # 0
    /\ last.op = "get"
    /\ last.ret.value # <<>>
    /\ hist[<<last.coll, last.ticker>>] # <<>>

C22_StepOrder ==
    [][IF nops' # nops + 1 \/ last'.op \notin {"set", "set_line_items"} THEN TRUE
       ELSE LET c == last'.coll
                t == last'.ticker
                now == DictGet(CacheIn(caches', c), t)
            IN  /\ ~now.absent
                /\ last'.op = "set"
                     => now.value = MergeData(last'.before, last'.data, KeyField(c))
                /\ IF last'.io = "mkdir_error"
                   THEN UNCHANGED disk
                   ELSE /\ t \in dirs'
                        /\ base_exists'
                        /\ \A path \in DOMAIN files' : path[1] \in dirs'
                        /\ last'.io = "ok" => files'[FilePath(t, c)] = JsonDump(c, now.value)
                        /\ last'.io = "write_error" =>
                             IsPrefix(files'[FilePath(t, c)], JsonDump(c, now.value))
                        /\ last'.io = "open_error" => files' = files]_vars

\* a set_* of a ticker that had no directory and whose directory could not be
\* made: the records are in memory, and there is neither directory nor file
C22_Witness ==
    /\ LastIsSet
    /\ last.io = "mkdir_error"
    /\ last.ticker \notin dirs
    /\ FilePath(last.ticker, last.coll) \notin DOMAIN files
    /\ ~LastInMemory.absent
    /\ LastInMemory.value # <<>>

\* C23: only a set_* creates a directory: building the Cache, also over a
\* root without base directory, and get_* leave the base directory and the
\* ticker directories as they are.
C23_LazyDirectories ==
    [][(last'.op \notin {"set", "set_line_items"}) => UNCHANGED <<base_exists, dirs>>]_vars

\* C24: a set_* whose write failed leaves on the disk what a Cache built
\* afterwards would load for the collection and ticker: the content of the
\* last write that succeeded.
C24_RestartAfterFailedWrite ==
    [][(nops' = nops + 1 /\ last'.op \in {"set", "set_line_items"} /\ last'.io # "ok")
         => LoadFile(files', FilePath(last'.ticker, last'.coll)) =
              LoadFile(files, FilePath(last'.ticker, last'.coll))]_vars

\* C25: a get_* or set_* keeps, for every merged collection and ticker, the
\* stored sequence as a prefix of the sequence stored afterwards, and a
\* collection that is present stays present.
C25_AppendOnly ==
    [][nops' = nops + 1 =>
         \A c \in MergedCollections : \A t \in Tickers :
            LET old == DictGet(Cache(c), t)
                new == DictGet(CacheIn(caches', c), t)
            IN  ~old.absent => (~new.absent /\ IsPrefix(old.value, new.value))]_vars

\* a second set_* that appended a record behind the stored one, which kept
\* its payload
C25_Witness ==
    /\ last.op = "set"
    /\ ~last.before.absent
    /\ last.before.value # <<>>
    /\ Len(LastInMemory.value) > Len(last.before.value)
    /\ IsPrefix(last.before.value, LastInMemory.value)
    /\ last.data[1][KeyField(last.coll)] = last.before.value[1][KeyField(last.coll)]
    /\ last.data[1] # last.before.value[1]

\* C30: when two set_prices for the same ticker that ran in two threads have
\* both returned, the ticker's file holds the text of the list that the
\* memory holds.
C30_MemoryDiskAgree ==
    (/\ AllDone
     /\ \A k \in Threads : th[k].op = "set_prices"
     /\ th["th1"].ticker = th["th2"].ticker)
    => DictGet(files, FilePath(th["th1"].ticker, "prices")) =
         Some(JsonDump("prices", prices_cache[th["th1"].ticker]))

(***************************************************************************)
(* Properties of batches with malformed records.                           *)
(***************************************************************************)
\* C21: a set_* whose batch holds a record without the identity field raises
\* and stores nothing, whether the collection of the ticker is absent, empty
\* or non-empty; a later set_* with a well-formed batch does not raise.
C21_MalformedFailFast ==
    last.op = "set" =>
        IF LacksKey(last.data, KeyField(last.coll))
        THEN last.raised /\ LastInMemory = last.before
        ELSE ~last.raised

\* C28: a set_* that raises while merging leaves the five collections in
\* memory and the directories and files as they were before the call.
C28_FailureAtomicity ==
    [][(nops' = nops + 1 /\ last'.op = "set" /\ last'.raised /\ last'.err = "KeyError")
         => UNCHANGED <<caches, disk>>]_vars

\* a set_* that raised on a batch whose first record is well-formed and new,
\* over a stored list that is in memory and in the file
C28_Witness ==
    /\ last.op = "set"
    /\ last.raised
    /\ last.err = "KeyError"
    /\ Len(last.data) = 2
    /\ ~LacksKey(last.before.value, KeyField(last.coll))
    /\ LastInMemory = last.before
    /\ LoadFile(files, FilePath(last.ticker, last.coll)) = last.before

(***************************************************************************)
(* Properties of the list objects.                                         *)
(***************************************************************************)
\* C26: set_prices changes neither the list object that was stored for the
\* ticker nor the caller's batch: as long as no caller has changed a list
\* itself, every list a get_prices returned and the batch handed to
\* set_prices hold what they held.
C26_MergeKeepsArguments ==
    ~al.mutated =>
        /\ \A i \in 1..Len(al.got) :
              ~al.got[i].ref.absent => al.objs[al.got[i].ref.value] = al.got[i].seen
        /\ al.w.data # 0 => al.objs[al.w.data] = al.w.handed

\* a list with a record was returned by get_prices, and a set_prices that
\* ran afterwards has stored a longer list
C26_Witness ==
    /\ ~al.mutated
    /\ al.w.pc = "idle"
    /\ \E i \in 1..Len(al.got) :
         /\ al.got[i].during = "idle"
         /\ al.got[i].seen # <<>>
         /\ al.objs[al.got[i].ref.value] = al.got[i].seen
         /\ Len(AliasContent(al).value) > Len(al.got[i].seen)

\* C27: a change the caller makes in place to the batch it had handed to a
\* set_prices that has returned does not change what get_prices returns.
C27_BatchIsolation ==
    [][al'.op = "mutate" => AliasContent(al') = AliasContent(al)]_vars

\* C29: a get_prices that runs while a set_prices for the ticker is under
\* way returns absent only if nothing was stored when the callers started,
\* and otherwise a list that holds all of what was stored before the set or
\* all of the merged result; that list does not change as the set goes on.
C29_ReaderWriterAtomic ==
    ~al.mutated =>
        \A i \in 1..Len(al.got) :
            IF al.got[i].ref.absent THEN al.start.absent
            ELSE /\ al.got[i].seen \in al.results
                 /\ al.objs[al.got[i].ref.value] = al.got[i].seen

\* a get_prices ran between the copy and the store of a set_prices and
\* returned the list that was stored before, shorter than the merged one
C29_Witness ==
    /\ ~al.mutated
    /\ al.w.pc = "persist"
    /\ \E i \in 1..Len(al.got) :
         /\ al.got[i].during \in {"extend", "store"}
         /\ al.got[i].seen # <<>>
         /\ Len(AliasContent(al).value) > Len(al.got[i].seen)
         /\ al.objs[al.got[i].ref.value] = al.got[i].seen

=============================================================================
